---------------------------- MODULE Spec2Model ----------------------------
(***************************************************************************)
(* Byline cleaning and site-name redundancy of readabilityrs               *)
(* (src/src/utils.rs).                                                     *)
(*                                                                         *)
(* A string is a sequence of Unicode scalar values.  A scalar value is     *)
(* written as a one-character TLA+ string when it is ASCII and as          *)
(* "U+XXXX" otherwise.  Rust indexes strings by UTF-8 byte offset, so the  *)
(* model keeps every character's encoded length (len_utf8) and converts    *)
(* between character positions and byte offsets where the code mixes       *)
(* offsets of two different strings.                                       *)
(***************************************************************************)
EXTENDS Integers, Sequences, FiniteSets, TLC

VARIABLES
    text,          \* argument of clean_byline_text_with_reason
    pieces,        \* number of vocabulary pieces the argument was built from
    pc,            \* "input" while the argument is being built, "returned" after the call
    run,           \* values of the locals of the call (see clean_byline_text_with_reason)
    simple,        \* result of clean_byline_text on the same argument
    byline,        \* first argument of is_byline_redundant_with_site_name
    site_name,     \* second argument of is_byline_redundant_with_site_name
    rpc,           \* "input" / "returned" for the redundancy call
    redundant,     \* result of is_byline_redundant_with_site_name
    unescaped,     \* result of unescape_html_entities(text), None before the call
    again          \* locals of a second call, on the text the first call accepted

vars == <<text, pieces, pc, run, simple, byline, site_name, rpc, redundant, unescaped, again>>

(***************************************************************************)
(* Characters                                                              *)
(***************************************************************************)

LowerAscii ==
    { "a", "b", "c", "d", "e", "f", "g", "h", "i", "j", "k", "l", "m",
      "n", "o", "p", "q", "r", "s", "t", "u", "v", "w", "x", "y", "z" }

UpperAscii ==
    { "A", "B", "C", "D", "E", "F", "G", "H", "I", "J", "K", "L", "M",
      "N", "O", "P", "Q", "R", "S", "T", "U", "V", "W", "X", "Y", "Z" }

\* U+212A KELVIN SIGN: an uppercase letter of 3 bytes whose lowercase is "k" (1 byte).
KELVIN == "U+212A"
NBSP == "U+00A0"
ZWSP == "U+200B"
BOM == "U+FEFF"
\* U+00E9, a lowercase letter of 2 bytes.
E_ACUTE == "U+00E9"
EN_DASH == "U+2013"
EM_DASH == "U+2014"
BULLET == "U+2022"
MIDDLE_DOT == "U+00B7"

\* char::is_whitespace: the White_Space property (U+00A0 has it, U+200B and U+FEFF do not).
WhiteSpace == { " ", "\t", "\n", "\r", NBSP }

SOFT_SPACE_CHARS == { NBSP, ZWSP, BOM }

AsciiDigits == { "0", "1", "2", "3", "4", "5", "6", "7", "8", "9" }

Uppercase == UpperAscii \cup { KELVIN }

Alphabetic == LowerAscii \cup Uppercase \cup { E_ACUTE }

\* The trailing separator/punctuation run of clean_byline_text_with_reason.
TRAILING_PUNCT == { "-", EN_DASH, EM_DASH, "|", BULLET, ":", ";", ",", "." }

\* The separators trimmed around the match by is_byline_redundant_with_site_name.
SITE_SEPARATORS == WhiteSpace \cup { ":", "-", EN_DASH, EM_DASH, "|", BULLET }

\* char::len_utf8
len_utf8(c) ==
    IF c \in { NBSP, MIDDLE_DOT, E_ACUTE } THEN 2
    ELSE IF c \in { ZWSP, BOM, EN_DASH, EM_DASH, BULLET, KELVIN } THEN 3
    ELSE 1

\* char::to_lowercase.  Every character of the model has a lowercase form of one
\* character; the form of KELVIN is "k", which is two bytes shorter.
LowerMap ==
    ("A" :> "a") @@ ("B" :> "b") @@ ("C" :> "c") @@ ("D" :> "d") @@ ("E" :> "e") @@
    ("F" :> "f") @@ ("G" :> "g") @@ ("H" :> "h") @@ ("I" :> "i") @@ ("J" :> "j") @@
    ("K" :> "k") @@ ("L" :> "l") @@ ("M" :> "m") @@ ("N" :> "n") @@ ("O" :> "o") @@
    ("P" :> "p") @@ ("Q" :> "q") @@ ("R" :> "r") @@ ("S" :> "s") @@ ("T" :> "t") @@
    ("U" :> "u") @@ ("V" :> "v") @@ ("W" :> "w") @@ ("X" :> "x") @@ ("Y" :> "y") @@
    ("Z" :> "z") @@ (KELVIN :> "k")

char_to_lowercase(c) == IF c \in Uppercase THEN LowerMap[c] ELSE c

(***************************************************************************)
(* Strings (the std::str operations the code uses)                         *)
(***************************************************************************)

\* str::len: the length in UTF-8 bytes.
RECURSIVE len(_)
len(s) == IF s = <<>> THEN 0 ELSE len_utf8(Head(s)) + len(Tail(s))

\* str::to_lowercase
to_lowercase(s) == [i \in 1..Len(s) |-> char_to_lowercase(s[i])]

\* str::trim_start_matches / trim_end_matches / trim_matches over a set of characters.
trim_start_matches(s, set) ==
    IF \A i \in 1..Len(s) : s[i] \in set THEN <<>>
    ELSE LET k == CHOOSE i \in 1..Len(s) :
                      s[i] \notin set /\ \A j \in 1..(i - 1) : s[j] \in set
         IN  SubSeq(s, k, Len(s))

trim_end_matches(s, set) ==
    IF \A i \in 1..Len(s) : s[i] \in set THEN <<>>
    ELSE LET k == CHOOSE i \in 1..Len(s) :
                      s[i] \notin set /\ \A j \in (i + 1)..Len(s) : s[j] \in set
         IN  SubSeq(s, 1, k)

trim_matches(s, set) == trim_end_matches(trim_start_matches(s, set), set)

trim(s) == trim_matches(s, WhiteSpace)

trim_start(s) == trim_start_matches(s, WhiteSpace)

trim_end(s) == trim_end_matches(s, WhiteSpace)

\* Whether pattern pat occurs in s at character position i.
MatchAt(s, pat, i) ==
    /\ i + Len(pat) - 1 <= Len(s)
    /\ \A j \in 1..Len(pat) : s[i + j - 1] = pat[j]

contains(s, pat) == \E i \in 1..(Len(s) + 1 - Len(pat)) : MatchAt(s, pat, i)

starts_with(s, pat) == MatchAt(s, pat, 1)

ends_with(s, pat) == Len(pat) <= Len(s) /\ MatchAt(s, pat, Len(s) - Len(pat) + 1)

\* str::find / str::rfind as the character position of the match, 0 for None.
find(s, pat) ==
    IF ~contains(s, pat) THEN 0
    ELSE CHOOSE i \in 1..Len(s) :
             MatchAt(s, pat, i) /\ \A j \in 1..(i - 1) : ~MatchAt(s, pat, j)

rfind(s, pat) ==
    IF ~contains(s, pat) THEN 0
    ELSE CHOOSE i \in 1..Len(s) :
             MatchAt(s, pat, i) /\ \A j \in (i + 1)..Len(s) : ~MatchAt(s, pat, j)

\* str::split on a non-empty pattern: the pieces between non-overlapping matches.
RECURSIVE split(_, _)
split(s, pat) ==
    LET i == find(s, pat)
    IN  IF i = 0 THEN << s >>
        ELSE << SubSeq(s, 1, i - 1) >> \o split(SubSeq(s, i + Len(pat), Len(s)), pat)

\* str::split_whitespace: the maximal runs of non-whitespace characters.
RECURSIVE split_whitespace(_)
split_whitespace(s) ==
    LET t == trim_start(s)
    IN  IF t = <<>> THEN <<>>
        ELSE LET ws == { i \in 1..Len(t) : t[i] \in WhiteSpace }
                 e  == IF ws = {} THEN Len(t) + 1
                       ELSE CHOOSE i \in ws : \A j \in ws : i <= j
             IN  << SubSeq(t, 1, e - 1) >> \o split_whitespace(SubSeq(t, e, Len(t)))

\* [&str]::join
RECURSIVE join(_, _)
join(parts, sep) ==
    IF parts = <<>> THEN <<>>
    ELSE IF Len(parts) = 1 THEN parts[1]
    ELSE parts[1] \o sep \o join(Tail(parts), sep)

\* str::replace
RECURSIVE replace(_, _, _)
replace(s, from, to) ==
    LET i == find(s, from)
    IN  IF i = 0 THEN s
        ELSE SubSeq(s, 1, i - 1) \o to \o replace(SubSeq(s, i + Len(from), Len(s)), from, to)

\* Whether byte offset b is a character boundary of s (str::is_char_boundary).
is_char_boundary(s, b) == \E k \in 0..Len(s) : len(SubSeq(s, 1, k)) = b

\* The character count of the prefix of s that ends at byte offset b, a boundary.
chars_before(s, b) == CHOOSE k \in 0..Len(s) : len(SubSeq(s, 1, k)) = b

Range(f) == { f[i] : i \in DOMAIN f }


(***************************************************************************)
(* Vocabularies                                                            *)
(***************************************************************************)

MONTHS ==
    { <<"j","a","n">>, <<"f","e","b">>, <<"m","a","r">>, <<"a","p","r">>,
      <<"m","a","y">>, <<"j","u","n">>, <<"j","u","l">>, <<"a","u","g">>,
      <<"s","e","p">>, <<"s","e","p","t">>, <<"o","c","t">>, <<"n","o","v">>,
      <<"d","e","c">>, <<"j","a","n","u","a","r","y">>,
      <<"f","e","b","r","u","a","r","y">>, <<"m","a","r","c","h">>,
      <<"a","p","r","i","l">>, <<"j","u","n","e">>, <<"j","u","l","y">>,
      <<"a","u","g","u","s","t">>, <<"s","e","p","t","e","m","b","e","r">>,
      <<"o","c","t","o","b","e","r">>, <<"n","o","v","e","m","b","e","r">>,
      <<"d","e","c","e","m","b","e","r">> }

\* "ago", "updated", "yesterday", "today"
RELATIVE_WORDS ==
    { <<"a","g","o">>, <<"u","p","d","a","t","e","d">>,
      <<"y","e","s","t","e","r","d","a","y">>, <<"t","o","d","a","y">> }

\* "am", "pm", "utc", "gmt", "est", "pst", "cet"
MERIDIEM_WORDS ==
    { <<"a","m">>, <<"p","m">>, <<"u","t","c">>, <<"g","m","t">>,
      <<"e","s","t">>, <<"p","s","t">>, <<"c","e","t">> }

DISQUALIFIERS ==
    { <<"r","e","p","o","r","t","e","r">>, <<"e","d","i","t","o","r">>,
      <<"w","r","i","t","e","r">>, <<"s","t","a","f","f">>,
      <<"s","e","n","i","o","r">>, <<"t","e","a","m">>, <<"d","e","s","k">>,
      <<"a","n","c","h","o","r">>, <<"p","r","o","d","u","c","e","r">>,
      <<"a","n","a","l","y","s","t">>,
      <<"c","o","r","r","e","s","p","o","n","d","e","n","t">>,
      <<"c","o","n","t","r","i","b","u","t","o","r">>,
      <<"t","e","c","h","n","o","l","o","g","i","s","t">>,
      <<"d","e","v","e","l","o","p","e","r">>,
      <<"d","e","v","e","l","o","p","e","r","s">>, <<"n","e","w","s">>,
      <<"p","r","e","s","s">>, <<"s","e","r","v","i","c","e">>,
      <<"b","u","r","e","a","u">>, <<"f","o","r","e","i","g","n">>,
      <<"a","n","d","r","o","i","d">>, <<"b","u","z","z","f","e","e","d">>,
      <<"t","e","l","e","g","r","a","p","h">>, <<"v","i","e","w">> }

EXACT_AGENCIES ==
    { <<"a","f","p">>, <<"a","p">>,
      <<"a","s","s","o","c","i","a","t","e","d"," ","p","r","e","s","s">>,
      <<"r","e","u","t","e","r","s">>, <<"b","l","o","o","m","b","e","r","g">>,
      <<"p","r","e","s","s"," ","a","s","s","o","c","i","a","t","i","o","n">>,
      <<"k","y","o","d","o">>, <<"a","n","s","a">>, <<"d","p","a">>,
      <<"u","p","i">> }

keywords ==
    { <<"s","t","a","f","f">>, <<"n","e","w","s">>,
      <<"n","e","w","s","r","o","o","m">>, <<"d","e","s","k">>,
      <<"t","e","a","m">>, <<"p","r","e","s","s">>,
      <<"s","e","r","v","i","c","e">>, <<"b","u","r","e","a","u">>,
      <<"f","o","r","e","i","g","n">>, <<"r","e","p","o","r","t","e","r">>,
      <<"r","e","p","o","r","t","e","r","s">>,
      <<"d","e","v","e","l","o","p","e","r","s">>,
      <<"a","n","d","r","o","i","d">>, <<"b","u","z","z","f","e","e","d">>,
      <<"w","i","r","e">>, <<"a","g","e","n","c","y">>,
      <<"a","g","e","n","c","i","e","s">>,
      <<"t","e","l","e","g","r","a","p","h">>, <<"o","u","r">>,
      <<"e","d","i","t","o","r","s">>, <<"v","i","e","w">> }

\* " | ", " - ", " – ", " — ", " · " in the order strip_trailing_datetime_clause tries them.
CLAUSE_SEPARATORS ==
    << <<" ","|"," ">>, <<" ","-"," ">>, <<" ",EN_DASH," ">>,
       <<" ",EM_DASH," ">>, <<" ",MIDDLE_DOT," ">> >>

\* '|', '/', '•', '·' then " - ", " – ", " — ": the delimiters of split_candidate_segments.
SEGMENT_DELIMITERS ==
    << <<"|">>, <<"/">>, <<BULLET>>, <<MIDDLE_DOT>>,
       <<" ","-"," ">>, <<" ",EN_DASH," ">>, <<" ",EM_DASH," ">> >>

POSTED_BY == <<"p","o","s","t","e","d"," ","b","y">>

PROMOTED_BY == <<"p","r","o","m","o","t","e","d"," ","b","y">>

MAX_AUTHOR_NAME_LEN == 80

MIN_AUTHOR_LETTERS == 3

MIN_KEYWORD_HITS == 2

MIN_PIPES == 2

MIN_MENU_LINES == 2

MAX_MENU_LINE_LEN == 30

MIN_MENU_LINE_LEN == 3

MAX_MENU_WORDS == 3

MIN_BYLINE_LEN == 3

(***************************************************************************)
(* Whitespace normalisation                                                *)
(***************************************************************************)

\* REGEXPS.normalize (crate::constants): a maximal run of whitespace.  The
\* run that starts at position i of s ends before position RunEnd(s, i).
RunEnd(s, i) ==
    IF \A j \in i..Len(s) : s[j] \in WhiteSpace THEN Len(s) + 1
    ELSE CHOOSE e \in i..Len(s) :
             s[e] \notin WhiteSpace /\ \A j \in i..(e - 1) : s[j] \in WhiteSpace

\* normalize_whitespace: every whitespace run becomes one ASCII space.
RECURSIVE normalize_whitespace(_)
normalize_whitespace(s) ==
    IF s = <<>> THEN <<>>
    ELSE IF s[1] \in WhiteSpace
         THEN << " " >> \o normalize_whitespace(SubSeq(s, RunEnd(s, 1), Len(s)))
         ELSE << s[1] >> \o normalize_whitespace(Tail(s))

(***************************************************************************)
(* Pattern classifiers                                                     *)
(***************************************************************************)

trim_soft_space(s) == trim_matches(s, SOFT_SPACE_CHARS)

looks_like_social_handle(s) ==
    LET normalized == to_lowercase(trim(s))
    IN  /\ normalized # <<>>
        /\ \/ starts_with(normalized, <<"@">>)
           \/ contains(normalized, <<" ","@">>)
           \/ contains(normalized, <<"t","w","i","t","t","e","r",".","c","o","m","/">>)
           \/ contains(normalized, <<"f","a","c","e","b","o","o","k",".","c","o","m","/">>)
           \/ /\ starts_with(normalized, <<"f","o","l","l","o","w"," ">>)
              /\ contains(normalized, <<"@">>)
           \/ contains(normalized, <<" ","f","o","l","l","o","w"," ","@">>)
           \/ /\ contains(normalized, <<" ","f","o","l","l","o","w"," ","u","s">>)
              /\ contains(normalized, <<"t","w","i","t","t","e","r">>)
           \/ /\ contains(normalized, <<" ","f","o","l","l","o","w"," ","o","n">>)
              /\ contains(normalized, <<"t","w","i","t","t","e","r">>)

looks_like_author_name(s) ==
    LET trimmed == trim_soft_space(trim(s))
        lower   == to_lowercase(trimmed)
    IN  /\ trimmed # <<>>
        /\ len(trimmed) <= MAX_AUTHOR_NAME_LEN
        /\ \E i \in 1..Len(trimmed) : trimmed[i] \in WhiteSpace
        /\ \A i \in 1..Len(trimmed) : trimmed[i] \notin AsciiDigits
        /\ ~starts_with(lower, <<"f","o","l","l","o","w"," ">>)
        /\ ~contains(lower, <<"@">>)
        /\ Cardinality({ i \in 1..Len(trimmed) : trimmed[i] \in Alphabetic })
               >= MIN_AUTHOR_LETTERS
        /\ \A token \in Range(split_whitespace(lower)) : token \notin DISQUALIFIERS

\* The segments of one line: the line, then its pieces for each delimiter it contains.
RECURSIVE line_segments(_, _)
line_segments(line, k) ==
    IF k > Len(SEGMENT_DELIMITERS) THEN <<>>
    ELSE (IF contains(line, SEGMENT_DELIMITERS[k])
          THEN split(line, SEGMENT_DELIMITERS[k]) ELSE <<>>)
         \o line_segments(line, k + 1)

RECURSIVE lines_segments(_)
lines_segments(lines) ==
    IF lines = <<>> THEN <<>>
    ELSE << lines[1] >> \o line_segments(lines[1], 1) \o lines_segments(Tail(lines))

split_candidate_segments(s) == lines_segments(split(s, <<"\n">>))

contains_author_like_segment(s) ==
    \/ looks_like_author_name(s)
    \/ \E segment \in Range(split_candidate_segments(s)) : looks_like_author_name(segment)

has_digit(lower) == \E i \in 1..Len(lower) : lower[i] \in AsciiDigits

mentions_month(lower) == \E month \in MONTHS : contains(lower, month)

looks_like_datetime_segment(segment) ==
    LET lower == to_lowercase(trim(segment))
    IN  /\ lower # <<>>
        /\ \/ \E w \in RELATIVE_WORDS : contains(lower, w)
           \/ has_digit(lower) /\ \E w \in MERIDIEM_WORDS : contains(lower, w)
           \/ has_digit(lower) /\ mentions_month(lower)
           \/ has_digit(lower) /\ contains(lower, <<":">>)

looks_like_live_timestamp_segment(segment) ==
    LET lower == to_lowercase(trim(segment))
    IN  /\ lower # <<>>
        /\ \/ \E w \in RELATIVE_WORDS \cup { <<"u","p","d","a","t","e">> } : contains(lower, w)
           \/ /\ ~mentions_month(lower)
              /\ has_digit(lower)
              /\ \/ contains(lower, <<":">>)
                 \/ \E w \in MERIDIEM_WORDS \cup { <<"a",".","m">>, <<"p",".","m">> } :
                        contains(lower, w)

\* Mutant of looks_like_org_credit: author-like segments are not looked for.
org_credit_ignoring_author(s) ==
    LET normalized == to_lowercase(normalize_whitespace(s))
        tokens     == split_whitespace(normalized)
        hits       == Cardinality({ i \in 1..Len(tokens) : tokens[i] \in keywords })
    IN  /\ normalized # <<>>
        /\ \/ normalized \in EXACT_AGENCIES
           \/ hits >= MIN_KEYWORD_HITS

looks_like_org_credit(s) ==
    LET normalized == to_lowercase(normalize_whitespace(s))
        tokens     == split_whitespace(normalized)
        hits       == Cardinality({ i \in 1..Len(tokens) : tokens[i] \in keywords })
    IN  /\ ~contains_author_like_segment(s)
        /\ normalized # <<>>
        /\ \/ normalized \in EXACT_AGENCIES
           \/ hits >= MIN_KEYWORD_HITS

\* One line of the location-pair pattern of looks_like_navigation_menu.
looks_like_location(line) ==
    LET stripped == trim(line)
        words    == split_whitespace(stripped)
        lower    == to_lowercase(stripped)
    IN  /\ stripped # <<>>
        /\ len(stripped) <= MAX_MENU_LINE_LEN
        /\ len(stripped) >= MIN_MENU_LINE_LEN
        /\ words # <<>>
        /\ Len(words) <= MAX_MENU_WORDS
        /\ \A w \in Range(words) :
               /\ \E i \in 1..Len(w) : w[i] \in Alphabetic
               /\ \A i \in 1..Len(w) : w[i] \in Alphabetic => w[i] \in Uppercase
        /\ ~contains(lower, <<"b","y">>)
        /\ ~contains(lower, <<"s","t","a","f","f">>)
        /\ ~contains(lower, <<"e","d","i","t","o","r">>)

looks_like_navigation_menu(s) ==
    LET pipe_count == Cardinality({ i \in 1..Len(s) : s[i] = "|" })
        lines      == SelectSeq(split(s, <<"\n">>), LAMBDA l : trim(l) # <<>>)
    IN  \/ pipe_count >= MIN_PIPES
        \/ /\ Len(lines) >= MIN_MENU_LINES
           /\ \A l \in Range(lines) : looks_like_location(l)


(***************************************************************************)
(* Byline cleaning pipeline                                                *)
(***************************************************************************)

\* Option<String>
None == [some |-> FALSE, value |-> <<>>]

Some(v) == [some |-> TRUE, value |-> v]

\* Result of an operation that can abort: the value, or a panic.
Ok(v) == [panic |-> FALSE, value |-> v]

Panicked == [panic |-> TRUE, value |-> <<>>]

\* &text[..b]: aborts unless b is in range and on a character boundary of s.
slice_to(s, b) ==
    IF b <= len(s) /\ is_char_boundary(s, b)
    THEN Ok(SubSeq(s, 1, chars_before(s, b)))
    ELSE Panicked

\* The loop over the separators of strip_trailing_datetime_clause, from the k-th on.
\* idx is a byte offset into lower, and is used to cut s.
RECURSIVE strip_from_separator(_, _, _)
strip_from_separator(s, lower, k) ==
    IF k > Len(CLAUSE_SEPARATORS) THEN Ok(s)
    ELSE LET separator == CLAUSE_SEPARATORS[k]
             pos       == rfind(lower, separator)
             idx       == len(SubSeq(lower, 1, pos - 1))
             tail      == trim(SubSeq(lower, pos + Len(separator), Len(lower)))
             head      == slice_to(s, idx)
         IN  IF pos # 0 /\ looks_like_datetime_segment(tail)
             THEN IF head.panic THEN Panicked ELSE Ok(trim_end(head.value))
             ELSE strip_from_separator(s, lower, k + 1)

\* Mutant of strip_trailing_datetime_clause: allow_strip is ignored.
strip_regardless_of_author(s, allow_strip) ==
    strip_from_separator(s, to_lowercase(s), 1)

strip_trailing_datetime_clause(s, allow_strip) ==
    IF ~allow_strip THEN Ok(s) ELSE strip_from_separator(s, to_lowercase(s), 1)

\* kept.join("\n").trim_end_matches('\n')
join_kept(kept) == trim_end_matches(join(kept, <<"\n">>), {"\n"})

remove_timestamp_lines(s) ==
    LET lines == split(s, <<"\n">>)
        kept  == SelectSeq(lines, LAMBDA line :
                     trim(line) = <<>> \/ ~looks_like_live_timestamp_segment(trim(line)))
    IN  IF Len(kept) = Len(lines) THEN None ELSE Some(join_kept(kept))

remove_social_handle_lines(s) ==
    LET lines == split(s, <<"\n">>)
        kept  == SelectSeq(lines, LAMBDA line : ~looks_like_social_handle(line))
    IN  IF Len(kept) = Len(lines) THEN None ELSE Some(join_kept(kept))

\* Mutant of collapse_lines: the first blank line of a run is kept as the indent
\* even when it is empty.
RECURSIVE collapse_lines_first_blank(_, _, _, _)
collapse_lines_first_blank(lines, result, pending_indent, first_line_written) ==
    IF lines = <<>> THEN result
    ELSE LET line == Head(lines)
         IN  IF trim(line) = <<>>
             THEN collapse_lines_first_blank(Tail(lines), result,
                      IF ~pending_indent.some THEN Some(line) ELSE pending_indent,
                      first_line_written)
             ELSE collapse_lines_first_blank(Tail(lines),
                      result
                          \o (IF first_line_written THEN <<"\n">> ELSE <<>>)
                          \o (IF pending_indent.some THEN pending_indent.value ELSE <<>>)
                          \o line,
                      None, TRUE)

\* The loop of collapse_blank_lines_preserve_indent over the remaining lines.
RECURSIVE collapse_lines(_, _, _, _)
collapse_lines(lines, result, pending_indent, first_line_written) ==
    IF lines = <<>> THEN result
    ELSE LET line == Head(lines)
         IN  IF trim(line) = <<>>
             THEN collapse_lines(Tail(lines), result,
                      IF ~pending_indent.some /\ line # <<>> THEN Some(line)
                      ELSE pending_indent,
                      first_line_written)
             ELSE collapse_lines(Tail(lines),
                      result
                          \o (IF first_line_written THEN <<"\n">> ELSE <<>>)
                          \o (IF pending_indent.some THEN pending_indent.value ELSE <<>>)
                          \o line,
                      None, TRUE)

collapse_blank_lines_preserve_indent(s) ==
    collapse_lines(split(s, <<"\n">>), <<>>, None, FALSE)

\* CleanBylineOutcome, and the abort of the call.
Accepted(v) == [tag |-> "Accepted", value |-> v]

DroppedOrgCredit == [tag |-> "DroppedOrgCredit", value |-> <<>>]

Dropped == [tag |-> "Dropped", value |-> <<>>]

Panic == [tag |-> "Panic", value |-> <<>>]

NotCalled == [tag |-> "NotCalled", value |-> <<>>]

\* The locals of a call that has not run (or not run that far).
NoRun ==
    [ exit |-> 0, outcome |-> NotCalled, cleaned |-> <<>>, collapsed |-> <<>>,
      has_author_segment |-> FALSE, stripped |-> <<>>, untimed |-> <<>>,
      canonical |-> <<>>, normalized |-> <<>> ]

\* The trailing separator/punctuation trim of clean_byline_text_with_reason.
trim_trailing_separators(trimmed) ==
    trim(trim_end_matches(trim_end_matches(trimmed, WhiteSpace), TRAILING_PUNCT))

\* A return of clean_byline_text_with_reason: the locals r computed so far, the
\* number of the pipeline step that returns (1..14) and the outcome.
Return(r, step, outcome) == [r EXCEPT !.exit = step, !.outcome = outcome]

\* clean_byline_text_with_reason is modelled as a chain of operators, one per
\* stretch of its body; each takes the record r of the locals computed so far:
\* cleaned (step 2), collapsed (canonical after step 3), has_author_segment
\* (step 4), stripped (canonical after step 5), untimed (canonical after step 6),
\* canonical (after step 7) and normalized (step 10).

\* Mutant of clean_normalized: the check for an alphabetic character is missing.
clean_normalized_without_letter_check(r) ==
    IF r.normalized = <<>> THEN Return(r, 10, Dropped)
    ELSE IF looks_like_social_handle(r.normalized) THEN Return(r, 11, Dropped)
    ELSE IF looks_like_org_credit(r.canonical) THEN Return(r, 13, DroppedOrgCredit)
    ELSE Return(r, 14, Accepted(r.canonical))

\* Mutant of clean_normalized: the normalised copy is accepted.
clean_normalized_accepting_copy(r) ==
    IF r.normalized = <<>> THEN Return(r, 10, Dropped)
    ELSE IF looks_like_social_handle(r.normalized) THEN Return(r, 11, Dropped)
    ELSE IF \A i \in 1..Len(r.normalized) : r.normalized[i] \notin Alphabetic
         THEN Return(r, 12, Dropped)
    ELSE IF looks_like_org_credit(r.canonical) THEN Return(r, 13, DroppedOrgCredit)
    ELSE Return(r, 14, Accepted(r.normalized))

\* Steps 10 to 14: the checks on the whitespace-normalised copy, the organisation
\* credit check on canonical, and the acceptance of canonical.
clean_normalized(r) ==
    IF r.normalized = <<>> THEN Return(r, 10, Dropped)
    ELSE IF looks_like_social_handle(r.normalized) THEN Return(r, 11, Dropped)
    ELSE IF \A i \in 1..Len(r.normalized) : r.normalized[i] \notin Alphabetic
         THEN Return(r, 12, Dropped)
    ELSE IF looks_like_org_credit(r.canonical) THEN Return(r, 13, DroppedOrgCredit)
    ELSE Return(r, 14, Accepted(r.canonical))

\* Steps 8 and 9: the "posted by" / "promoted by" prefix and the navigation menu.
clean_canonical(r) ==
    LET trimmed_lower == to_lowercase(trim_start(r.canonical))
    IN  IF \/ starts_with(trimmed_lower, POSTED_BY)
           \/ starts_with(trimmed_lower, PROMOTED_BY)
        THEN Return(r, 8, DroppedOrgCredit)
        ELSE IF looks_like_navigation_menu(r.canonical) THEN Return(r, 9, Dropped)
        ELSE clean_normalized([r EXCEPT !.normalized = normalize_whitespace(r.canonical)])

\* Mutant of clean_untimed: the handle lines are removed only with an author segment.
clean_untimed_only_with_author(r) ==
    LET filtered == IF r.has_author_segment THEN remove_social_handle_lines(r.untimed)
                    ELSE None
    IN  IF filtered.some /\ trim(filtered.value) = <<>> THEN Return(r, 7, Dropped)
        ELSE clean_canonical(
                 [r EXCEPT !.canonical = IF filtered.some THEN filtered.value
                                         ELSE r.untimed])

\* Step 7: the social-handle lines are removed, whatever has_author_segment is.
clean_untimed(r) ==
    LET filtered == remove_social_handle_lines(r.untimed)
    IN  IF filtered.some /\ trim(filtered.value) = <<>> THEN Return(r, 7, Dropped)
        ELSE clean_canonical(
                 [r EXCEPT !.canonical = IF filtered.some THEN filtered.value
                                         ELSE r.untimed])

\* Step 6: with an author segment, the live timestamp lines are removed.
clean_stripped(r) ==
    LET filtered == IF r.has_author_segment THEN remove_timestamp_lines(r.stripped)
                    ELSE None
    IN  IF filtered.some /\ trim(filtered.value) = <<>> THEN Return(r, 6, Dropped)
        ELSE clean_untimed(
                 [r EXCEPT !.untimed = IF filtered.some THEN filtered.value
                                       ELSE r.stripped])

\* Steps 4 and 5: the author segment test and the trailing datetime clause.
clean_collapsed(r) ==
    LET stripped == strip_trailing_datetime_clause(r.collapsed, r.has_author_segment)
    IN  IF stripped.panic THEN Return(r, 5, Panic)
        ELSE clean_stripped([r EXCEPT !.stripped = stripped.value])

\* Steps 2 and 3: an empty cleaned text is dropped; line endings are normalised and
\* blank lines collapsed.
clean_cleaned(r) ==
    IF r.cleaned = <<>> THEN Return(r, 2, Dropped)
    ELSE LET collapsed == collapse_blank_lines_preserve_indent(
                              replace(r.cleaned, <<"\r","\n">>, <<"\n">>))
         IN  clean_collapsed(
                 [r EXCEPT !.collapsed = collapsed,
                           !.has_author_segment = contains_author_like_segment(collapsed)])

\* Step 1, and the entry of the call.
clean_byline_text_with_reason(t) ==
    LET trimmed == trim_soft_space(trim(t))
    IN  IF trimmed = <<>> THEN Return(NoRun, 1, Dropped)
        ELSE clean_cleaned([NoRun EXCEPT !.cleaned = trim_trailing_separators(trimmed)])

\* clean_byline_text: the match on the outcome of clean_byline_text_with_reason
\* (an abort of the inner call aborts this one too).
clean_byline_text(outcome) ==
    IF outcome.tag = "Accepted" THEN Some(outcome.value)
    ELSE IF outcome.tag = "Panic" THEN [some |-> FALSE, value |-> <<"panic">>]
    ELSE None

(***************************************************************************)
(* Redundancy with the site name                                           *)
(***************************************************************************)

is_byline_redundant_with_site_name(b, s) ==
    LET normalized_byline == to_lowercase(normalize_whitespace(b))
        normalized_site   == to_lowercase(normalize_whitespace(s))
        pos    == find(normalized_site, normalized_byline)
        prefix == trim_end_matches(SubSeq(normalized_site, 1, pos - 1), SITE_SEPARATORS)
        suffix == trim_start_matches(
                      SubSeq(normalized_site, pos + Len(normalized_byline),
                             Len(normalized_site)),
                      SITE_SEPARATORS)
    IN  /\ len(normalized_byline) >= MIN_BYLINE_LEN
        /\ pos # 0
        /\ \/ ends_with(prefix, <<"b","y">>)
           \/ starts_with(suffix, <<"b","y">>)


(***************************************************************************)
(* HTML entities                                                           *)
(***************************************************************************)

\* The characters U+0020 .. U+007E, in code point order (U+0060 by its name).
ASCII_PRINTABLE ==
    << " ", "!", "\"", "#", "$", "%", "&", "'", "(", ")", "*", "+",
       ",", "-", ".", "/", "0", "1", "2", "3", "4", "5", "6", "7",
       "8", "9", ":", ";", "<", "=", ">", "?", "@", "A", "B", "C",
       "D", "E", "F", "G", "H", "I", "J", "K", "L", "M", "N", "O",
       "P", "Q", "R", "S", "T", "U", "V", "W", "X", "Y", "Z", "[",
       "\\", "]", "^", "_", "U+0060", "a", "b", "c", "d", "e", "f", "g",
       "h", "i", "j", "k", "l", "m", "n", "o", "p", "q", "r", "s",
       "t", "u", "v", "w", "x", "y", "z", "{", "|", "}", "~" >>

\* Code point of " " (the first character of ASCII_PRINTABLE).
FIRST_PRINTABLE == 32

\* The code points of the other characters the model names.
NAMED_SCALARS ==
    (160 :> NBSP) @@ (183 :> MIDDLE_DOT) @@ (233 :> E_ACUTE) @@ (8203 :> ZWSP) @@
    (8211 :> EN_DASH) @@ (8212 :> EM_DASH) @@ (8226 :> BULLET) @@ (8490 :> KELVIN) @@
    (65279 :> BOM)

\* char::from_u32 accepts 0 ..= 0x10FFFF without the surrogates 0xD800 ..= 0xDFFF.
MAX_SCALAR == 1114111

FIRST_SURROGATE == 55296

LAST_SURROGATE == 57343

\* The character with code point n; a character the model has no name for is
\* written "#" followed by its decimal code point.
char_of(n) ==
    IF n >= FIRST_PRINTABLE /\ n < FIRST_PRINTABLE + Len(ASCII_PRINTABLE)
    THEN ASCII_PRINTABLE[n - FIRST_PRINTABLE + 1]
    ELSE IF n \in DOMAIN NAMED_SCALARS THEN NAMED_SCALARS[n]
    ELSE "#" \o ToString(n)

\* The digits of char::to_digit, by value.
DIGITS == <<"0","1","2","3","4","5","6","7","8","9","a","b","c","d","e","f">>

\* char::to_digit(radix): the value of the digit c, or -1 (None).
to_digit(c, radix) ==
    LET values == { v \in 0..(radix - 1) : DIGITS[v + 1] = char_to_lowercase(c) }
    IN  IF c \in AsciiDigits \cup LowerAscii \cup UpperAscii /\ values # {}
        THEN CHOOSE v \in values : TRUE
        ELSE -1

\* The digit loop of u32::from_str_radix: -1 is Err(InvalidDigit).  A value past
\* MAX_SCALAR is kept as MAX_SCALAR + 1: the code maps both the overflow error
\* (.ok()) and a too large value (char::from_u32) to None.
RECURSIVE digits_value(_, _, _)
digits_value(digits, radix, acc) ==
    IF digits = <<>> THEN acc
    ELSE LET d == to_digit(Head(digits), radix)
         IN  IF d < 0 THEN -1
             ELSE digits_value(Tail(digits), radix,
                      IF acc * radix + d > MAX_SCALAR THEN MAX_SCALAR + 1
                      ELSE acc * radix + d)

\* u32::from_str_radix (and str::parse::<u32>, which is radix 10): an optional
\* "+" sign, then at least one digit; -1 is Err.
from_str_radix(src, radix) ==
    IF src = <<>> \/ src = <<"+">> \/ src = <<"-">> THEN -1
    ELSE IF Head(src) = "+" THEN digits_value(Tail(src), radix, 0)
    ELSE digits_value(src, radix, 0)

\* .ok().and_then(std::char::from_u32).map(|c| c.to_string())
from_u32(n) ==
    IF n < 0 \/ n > MAX_SCALAR \/ (n >= FIRST_SURROGATE /\ n <= LAST_SURROGATE)
    THEN None
    ELSE Some(<< char_of(n) >>)

\* The named entities of decode_html_entity.
NAMED_ENTITIES ==
    (<<"&","l","t",";">> :> "<") @@ (<<"&","g","t",";">> :> ">") @@
    (<<"&","a","m","p",";">> :> "&") @@ (<<"&","q","u","o","t",";">> :> "\"") @@
    (<<"&","a","p","o","s",";">> :> "'") @@ (<<"&","#","3","9",";">> :> "'")

\* decode_html_entity(entity); entity runs from "&" to the first ";" after it.
decode_html_entity(entity) ==
    IF entity \in DOMAIN NAMED_ENTITIES THEN Some(<< NAMED_ENTITIES[entity] >>)
    ELSE IF starts_with(entity, <<"&","#","x">>) \/ starts_with(entity, <<"&","#","X">>)
    THEN from_u32(from_str_radix(SubSeq(entity, 4, Len(entity) - 1), 16))
    ELSE IF starts_with(entity, <<"&","#">>) /\ ends_with(entity, <<";">>)
    THEN from_u32(from_str_radix(SubSeq(entity, 3, Len(entity) - 1), 10))
    ELSE None

\* The loop of unescape_html_entities from position i on: rest is text[i..].  i is
\* always a character boundary, so the byte test for "&" is a test of the character.
RECURSIVE unescape_from(_, _)
unescape_from(rest, result) ==
    IF rest = <<>> THEN result
    ELSE LET semi_offset == find(rest, <<";">>)
             decoded     == IF Head(rest) = "&" /\ semi_offset # 0
                            THEN decode_html_entity(SubSeq(rest, 1, semi_offset))
                            ELSE None
         IN  IF decoded.some
             THEN unescape_from(SubSeq(rest, semi_offset + 1, Len(rest)),
                                result \o decoded.value)
             ELSE unescape_from(Tail(rest), Append(result, Head(rest)))

unescape_html_entities(t) == unescape_from(t, <<>>)


(***************************************************************************)
(* The calls                                                               *)
(***************************************************************************)

\* The pieces an argument of clean_byline_text_with_reason is built from.
VOCABULARY ==
    << <<"A","l"," ","B","o">>,                 \* a personal name
       <<KELVIN>>,                              \* a letter whose lowercase is shorter
       <<" ","|"," ">>,                         \* a separator
       <<" ","-"," ","1","p","m">>,             \* a time-of-day clause
       <<"M","a","r"," ","1">>,                 \* an absolute date
       <<"\n">>,
       <<" ">>,
       <<".">>,                                 \* trailing punctuation
       <<"@","x">>,                             \* a social handle
       <<ZWSP>>,                                \* soft space that is not whitespace
       <<NBSP>>,                                \* soft space that is whitespace
       <<"O","u","r"," ","S","t","a","f","f">>, \* an organisation credit
       <<"A","P">>,                             \* a wire agency
       <<"p","o","s","t","e","d"," ","b","y">> >>

\* The most pieces an argument of clean_byline_text_with_reason is built from.
MaxPieces == 3

\* The bylines is_byline_redundant_with_site_name is called with.
BYLINES ==
    { <<"J","o","e">>, <<"J","o">>, <<EN_DASH>>, <<"J","o","e"," "," ","x">> }

\* The pieces a site name is built from.
SITE_VOCABULARY ==
    << <<"J","o","e">>, <<"B","Y">>, <<" ">>, <<"x">>, <<":">>, <<EN_DASH>> >>

\* The most pieces a site name is built from.
MaxSitePieces == 4

Init ==
    /\ text = <<>>
    /\ pieces = 0
    /\ pc = "input"
    /\ run = NoRun
    /\ simple = None
    /\ byline = <<>>
    /\ site_name = <<>>
    /\ rpc = "idle"
    /\ redundant = FALSE
    /\ unescaped = None
    /\ again = NoRun

\* The caller extends the candidate text by one piece.
AppendPiece ==
    /\ pc = "input"
    /\ pieces < MaxPieces
    /\ \E k \in 1..Len(VOCABULARY) : text' = text \o VOCABULARY[k]
    /\ pieces' = pieces + 1
    /\ UNCHANGED <<pc, run, simple, byline, site_name, rpc, redundant, unescaped, again>>

\* clean_byline_text(text), which calls clean_byline_text_with_reason(text).
CleanByline ==
    /\ pc = "input"
    /\ pc' = "returned"
    /\ run' = clean_byline_text_with_reason(text)
    /\ simple' = clean_byline_text(run'.outcome)
    /\ UNCHANGED <<text, pieces, byline, site_name, rpc, redundant, unescaped, again>>

Next == AppendPiece \/ CleanByline

Spec == Init /\ [][Next]_vars

\* The redundancy check is called on its own, with a byline and a site name.
RedundantInit ==
    /\ text = <<>>
    /\ pieces = 0
    /\ pc = "idle"
    /\ run = NoRun
    /\ simple = None
    /\ byline \in BYLINES
    /\ site_name = <<>>
    /\ rpc = "input"
    /\ redundant = FALSE
    /\ unescaped = None
    /\ again = NoRun

AppendSitePiece ==
    /\ rpc = "input"
    /\ pieces < MaxSitePieces
    /\ \E k \in 1..Len(SITE_VOCABULARY) : site_name' = site_name \o SITE_VOCABULARY[k]
    /\ pieces' = pieces + 1
    /\ UNCHANGED <<text, pc, run, simple, byline, rpc, redundant, unescaped, again>>

IsRedundant ==
    /\ rpc = "input"
    /\ rpc' = "returned"
    /\ redundant' = is_byline_redundant_with_site_name(byline, site_name)
    /\ UNCHANGED <<text, pieces, pc, run, simple, byline, site_name, unescaped, again>>

RedundantNext == AppendSitePiece \/ IsRedundant

SpecRedundant == RedundantInit /\ [][RedundantNext]_vars


\* The pieces an argument of unescape_html_entities is built from.
ENTITY_VOCABULARY ==
    << <<"&">>, <<"&","#">>, <<"&","#","x">>,
       <<"l","t",";">>, <<"a","m","p",";">>, <<"l","t">>,
       <<"3","8",";">>, <<"+">>, <<"6","5",";">>,
       <<"D","8","0","0",";">>, <<"1","1","1","4","1","1","2",";">>,
       <<E_ACUTE>>, <<" ">> >>

\* The most pieces an argument of unescape_html_entities is built from.
MaxEntityPieces == 4

\* unescape_html_entities is called on its own, with a text of its own.
UnescapeInit ==
    /\ text = <<>>
    /\ pieces = 0
    /\ pc = "idle"
    /\ run = NoRun
    /\ simple = None
    /\ byline = <<>>
    /\ site_name = <<>>
    /\ rpc = "idle"
    /\ redundant = FALSE
    /\ unescaped = None
    /\ again = NoRun

AppendEntityPiece ==
    /\ ~unescaped.some
    /\ pieces < MaxEntityPieces
    /\ \E k \in 1..Len(ENTITY_VOCABULARY) : text' = text \o ENTITY_VOCABULARY[k]
    /\ pieces' = pieces + 1
    /\ UNCHANGED <<pc, run, simple, byline, site_name, rpc, redundant, unescaped, again>>

Unescape ==
    /\ ~unescaped.some
    /\ unescaped' = Some(unescape_html_entities(text))
    /\ UNCHANGED <<text, pieces, pc, run, simple, byline, site_name, rpc, redundant, again>>

UnescapeNext == AppendEntityPiece \/ Unescape

SpecUnescape == UnescapeInit /\ [][UnescapeNext]_vars


\* The pieces a candidate text with an author line is built from.
AUTHOR_VOCABULARY ==
    << <<"A","l"," ","B","o">>,                 \* a personal name
       <<"I","a","g","o"," ","B","o">>,         \* a personal name with "ago" in it
       <<"\n">>,
       <<"U","p","d","a","t","e","d"," ">>,
       <<"M","a","r"," ","1">>,                 \* an absolute date
       <<" ","-"," ","1","p","m">>,             \* a time-of-day clause
       <<" ","-"," ","M","a","r"," ","1">>,     \* an absolute date clause
       <<" ","|"," ">>,
       <<" ">>,
       <<"@","x">> >>

\* The most pieces a candidate text with an author line is built from.
MaxAuthorPieces == 4

AppendAuthorPiece ==
    /\ pc = "input"
    /\ pieces < MaxAuthorPieces
    /\ \E k \in 1..Len(AUTHOR_VOCABULARY) : text' = text \o AUTHOR_VOCABULARY[k]
    /\ pieces' = pieces + 1
    /\ UNCHANGED <<pc, run, simple, byline, site_name, rpc, redundant, unescaped, again>>

\* clean_byline_text_with_reason is called again, on the text it accepted.
CleanAgain ==
    /\ pc = "returned"
    /\ run.outcome.tag = "Accepted"
    /\ pc' = "again"
    /\ again' = clean_byline_text_with_reason(run.outcome.value)
    /\ UNCHANGED <<text, pieces, run, simple, byline, site_name, rpc, redundant, unescaped>>

AuthorNext == AppendAuthorPiece \/ CleanByline \/ CleanAgain

\* The calls on candidate texts with an author line, and the second call on an
\* accepted result.
SpecAuthor == Init /\ [][AuthorNext]_vars


\* The lines a multi-line candidate text is built from: a name, an indented line,
\* an empty line and two whitespace-only lines.
LINE_VOCABULARY ==
    << <<"A","l"," ","B","o">>, <<" ","x">>, <<>>, <<" ">>, <<NBSP>> >>

\* The most lines of a multi-line candidate text.
MaxLines == 5

\* The caller extends the candidate text by one line.
AppendLine ==
    /\ pc = "input"
    /\ pieces < MaxLines
    /\ \E k \in 1..Len(LINE_VOCABULARY) :
           text' = IF pieces = 0 THEN LINE_VOCABULARY[k]
                   ELSE text \o <<"\n">> \o LINE_VOCABULARY[k]
    /\ pieces' = pieces + 1
    /\ UNCHANGED <<pc, run, simple, byline, site_name, rpc, redundant, unescaped, again>>

LinesNext == AppendLine \/ CleanByline

\* The calls on multi-line candidate texts.
SpecLines == Init /\ [][LinesNext]_vars


(***************************************************************************)
(* Properties                                                              *)
(***************************************************************************)

returned == pc = "returned"

accepted == returned /\ run.outcome.tag = "Accepted"

lines_of(s) == split(s, <<"\n">>)

\* C1: clean_byline_text_with_reason is total: every call returns Accepted(text),
\* DroppedOrgCredit or Dropped, and never aborts on a slice at an index that is
\* out of range or not a character boundary.
C1_Total ==
    returned => run.outcome.tag \in { "Accepted", "DroppedOrgCredit", "Dropped" }

\* The truncation C2 describes: among the occurrences of the five separators whose
\* following text is a datetime segment, cut before the rightmost one.
datetime_separator_positions(s) ==
    { i \in 1..Len(s) :
        \E k \in 1..Len(CLAUSE_SEPARATORS) :
            /\ MatchAt(s, CLAUSE_SEPARATORS[k], i)
            /\ looks_like_datetime_segment(
                   SubSeq(s, i + Len(CLAUSE_SEPARATORS[k]), Len(s))) }

cut_at_last_datetime_separator(s) ==
    LET at == datetime_separator_positions(s)
    IN  IF at = {} THEN s
        ELSE trim_end(SubSeq(s, 1, (CHOOSE i \in at : \A j \in at : j <= i) - 1))

\* C2: with an author-like segment, step 5 truncates the text just before the
\* rightmost occurrence of any of the five separators that is followed by a
\* datetime segment, and keeps everything before that occurrence.
C2_StripsAtLastDatetimeSeparator ==
    (returned /\ run.has_author_segment /\ run.exit > 5)
        => run.stripped = cut_at_last_datetime_separator(run.collapsed)

\* The text with the lines that match looks_like_social_handle left out.
without_handle_lines(s) ==
    join(SelectSeq(lines_of(s), LAMBDA line : ~looks_like_social_handle(line)), <<"\n">>)

\* C3: without an author-like segment steps 5 and 6 change nothing (no abort, no
\* truncation, no timestamp line removed, no drop at step 6), and an accepted text
\* is the step-3 text with at most its social-handle lines removed.
C3_NoAuthorNoStripping ==
    (returned /\ run.exit > 2 /\ ~run.has_author_segment)
        => /\ run.exit > 6
           /\ run.stripped = run.collapsed
           /\ run.untimed = run.collapsed
           /\ run.outcome.tag = "Accepted"
                  => run.outcome.value = without_handle_lines(run.collapsed)

\* C3's case: an accepted text without author segment that ends in a datetime
\* clause which step 5 would have cut.
C3_Witness ==
    /\ accepted
    /\ ~run.has_author_segment
    /\ cut_at_last_datetime_separator(run.collapsed) # run.collapsed
    /\ run.outcome.value = run.collapsed

\* C4: an accepted text is exactly the text as it stood after the removal of the
\* social-handle lines (step 7), spaces and newlines included, and not the
\* whitespace-normalised copy of steps 10 to 12.
C4_AcceptsCanonical ==
    accepted
        => /\ run.outcome.value = run.canonical
           /\ run.canonical = without_handle_lines(run.untimed)
           /\ run.normalized = normalize_whitespace(run.canonical)

\* C4's case: an accepted text that differs from its normalised copy.
C4_Witness ==
    /\ accepted
    /\ run.outcome.value # run.normalized
    /\ contains(run.outcome.value, <<"\n">>)


\* Step 7 was reached: run.untimed is the text the handle lines are removed from.
reached_step_7 == returned /\ run.exit >= 7

\* The call went past step 7: run.canonical is the remainder after step 7.
passed_step_7 == returned /\ run.exit >= 8

every_line_is_handle(s) == \A line \in Range(lines_of(s)) : looks_like_social_handle(line)

has_posted_by_prefix(s) ==
    \/ starts_with(to_lowercase(trim_start(s)), POSTED_BY)
    \/ starts_with(to_lowercase(trim_start(s)), PROMOTED_BY)

\* The part of C5 on the lines: past step 7 the remainder is the text before step 7
\* without its handle lines, the other lines unmodified and in order, with or
\* without an author segment; no line of an accepted text is a handle.
handle_lines_dropped ==
    /\ passed_step_7
           => lines_of(run.canonical)
                  = SelectSeq(lines_of(run.untimed),
                              LAMBDA line : ~looks_like_social_handle(line))
    /\ accepted
           => \A line \in Range(lines_of(run.outcome.value)) :
                  ~looks_like_social_handle(line)

\* C5 as stated: every handle line is dropped, and the outcome is Dropped when
\* every line is a handle or the whitespace-normalised remainder is a handle.
C5_HandlesAlwaysDropped ==
    /\ handle_lines_dropped
    /\ (reached_step_7 /\ every_line_is_handle(run.untimed)) => run.outcome = Dropped
    /\ (passed_step_7 /\ looks_like_social_handle(normalize_whitespace(run.canonical)))
           => run.outcome = Dropped

\* C5 amended: as C5, but a remainder whose normalised copy is a handle and that
\* starts with "posted by" / "promoted by" is DroppedOrgCredit (step 8 precedes 11).
C5_HandlesDroppedUnlessPostedBy ==
    /\ handle_lines_dropped
    /\ (reached_step_7 /\ every_line_is_handle(run.untimed)) => run.outcome = Dropped
    /\ (passed_step_7 /\ looks_like_social_handle(normalize_whitespace(run.canonical)))
           => run.outcome = IF has_posted_by_prefix(run.canonical) THEN DroppedOrgCredit
                            ELSE Dropped

\* C5's case: a text without author segment is accepted after a handle line was
\* removed from it.
C5_Witness ==
    /\ accepted
    /\ ~run.has_author_segment
    /\ run.canonical # run.untimed

\* Case (b) of C6, written out on the remainder after step 7.
keyword_hits(s) ==
    LET tokens == split_whitespace(to_lowercase(normalize_whitespace(s)))
    IN  Cardinality({ i \in 1..Len(tokens) : tokens[i] \in keywords })

passes_steps_10_to_12(s) ==
    LET normalized == normalize_whitespace(s)
    IN  /\ normalized # <<>>
        /\ ~looks_like_social_handle(normalized)
        /\ \E i \in 1..Len(normalized) : normalized[i] \in Alphabetic

org_credit_remainder(s) ==
    /\ ~looks_like_navigation_menu(s)
    /\ passes_steps_10_to_12(s)
    /\ ~contains_author_like_segment(s)
    /\ \/ to_lowercase(normalize_whitespace(s)) \in EXACT_AGENCIES
       \/ keyword_hits(s) >= MIN_KEYWORD_HITS

\* C6: the outcome is DroppedOrgCredit exactly when the remainder after step 7
\* (a) starts with "posted by" / "promoted by" or (b) is no navigation menu, passes
\* steps 10 to 12, has no author-like segment and is an exact agency name or has two
\* keyword tokens; every other rejection is Dropped.
C6_OrgCreditExactly ==
    returned
        => /\ run.outcome = DroppedOrgCredit
                  <=> /\ passed_step_7
                      /\ \/ has_posted_by_prefix(run.canonical)
                         \/ org_credit_remainder(run.canonical)
           /\ run.outcome.tag \notin { "Accepted", "DroppedOrgCredit", "Panic" }
                  => run.outcome = Dropped

\* C6's case: a remainder with two keyword tokens next to an author-like segment,
\* which is accepted.
C6_Witness ==
    /\ accepted
    /\ keyword_hits(run.canonical) >= MIN_KEYWORD_HITS
    /\ contains_author_like_segment(run.canonical)
    /\ ~has_posted_by_prefix(run.canonical)

\* The occurrences of the normalised byline b in the normalised site name s that
\* have "by" before or after them, separators trimmed.
adjacent_occurrences(b, s) ==
    { i \in 1..Len(s) :
        /\ MatchAt(s, b, i)
        /\ \/ ends_with(trim_end_matches(SubSeq(s, 1, i - 1), SITE_SEPARATORS),
                        <<"b","y">>)
           \/ starts_with(trim_start_matches(SubSeq(s, i + Len(b), Len(s)),
                                             SITE_SEPARATORS),
                          <<"b","y">>) }

normalized_byline == to_lowercase(normalize_whitespace(byline))

normalized_site == to_lowercase(normalize_whitespace(site_name))

redundancy_returned == rpc = "returned"

\* C7: the result is true only if the normalised byline has at least 3 characters
\* (Unicode scalar values) and occurs in the normalised site name next to "by".
C7_RedundantOnlyIf ==
    (redundancy_returned /\ redundant)
        => /\ Len(normalized_byline) >= MIN_BYLINE_LEN
           /\ adjacent_occurrences(normalized_byline, normalized_site) # {}

\* C8: the result is true whenever the normalised byline, of length at least 3, has
\* some occurrence in the normalised site name next to "by", also when an earlier
\* occurrence has no "by" next to it.
C8_RedundantIf ==
    ( /\ redundancy_returned
      /\ Len(normalized_byline) >= MIN_BYLINE_LEN
      /\ adjacent_occurrences(normalized_byline, normalized_site) # {} )
        => redundant

\* C9: an accepted text neither begins nor ends with a whitespace or soft-space
\* character and does not end with one of - – — | • : ; , .
C9_AcceptedIsTrimmed ==
    accepted
        => LET t == run.outcome.value
           IN  /\ t # <<>>
               /\ t[1] \notin WhiteSpace \cup SOFT_SPACE_CHARS
               /\ t[Len(t)] \notin WhiteSpace \cup SOFT_SPACE_CHARS \cup TRAILING_PUNCT

has_alphabetic(s) == \E i \in 1..Len(s) : s[i] \in Alphabetic

\* C10: an accepted text is non-empty and has an alphabetic character; an argument
\* without alphabetic character is Dropped; clean_byline_text returns a value,
\* the accepted text, exactly when the outcome is Accepted.
C10_AcceptedHasLetter ==
    returned
        => /\ run.outcome.tag = "Accepted"
                  => run.outcome.value # <<>> /\ has_alphabetic(run.outcome.value)
           /\ ~has_alphabetic(text) => run.outcome = Dropped
           /\ simple.some <=> run.outcome.tag = "Accepted"
           /\ simple.some => simple.value = run.outcome.value

\* C10's case: a non-empty argument without letters that passes steps 1 to 11 and
\* is dropped by the check of step 12.
C10_Witness ==
    /\ returned
    /\ run.exit = 12
    /\ ~has_alphabetic(text)
    /\ run.outcome = Dropped
    /\ simple = None

\* ---------------------------------------------------------------------------
\* C11
\* ---------------------------------------------------------------------------

hex_digits == AsciiDigits \cup {"a","b","c","d","e","f","A","B","C","D","E","F"}

\* The number a well-formed numeric reference holds: "&#" decimal digits ";" or
\* "&#x" hex digits ";", with nothing but digits; -1 for anything else.
reference_number(entity) ==
    LET hex == \/ starts_with(entity, <<"&","#","x">>)
               \/ starts_with(entity, <<"&","#","X">>)
        body == SubSeq(entity, IF hex THEN 4 ELSE 3, Len(entity) - 1)
    IN  IF /\ starts_with(entity, <<"&","#">>)
           /\ ends_with(entity, <<";">>)
           /\ body # <<>>
           /\ \A i \in 1..Len(body) : body[i] \in (IF hex THEN hex_digits ELSE AsciiDigits)
        THEN digits_value(body, IF hex THEN 16 ELSE 10, 0)
        ELSE -1

is_scalar_value(n) ==
    n >= 0 /\ n <= MAX_SCALAR /\ ~(n >= FIRST_SURROGATE /\ n <= LAST_SURROGATE)

named_entity(entity) ==
    \E name \in { <<"l","t">>, <<"g","t">>, <<"a","m","p">>, <<"q","u","o","t">>,
                  <<"a","p","o","s">> } : entity = <<"&">> \o name \o <<";">>

\* The text with every named entity and every well-formed numeric reference of a
\* scalar value replaced by its character, left to right, and nothing else changed.
RECURSIVE entities_decoded(_)
entities_decoded(s) ==
    IF s = <<>> THEN <<>>
    ELSE LET semi   == find(s, <<";">>)
             entity == SubSeq(s, 1, semi)
         IN  IF Head(s) = "&" /\ semi # 0 /\ named_entity(entity)
             THEN << NAMED_ENTITIES[entity] >> \o entities_decoded(SubSeq(s, semi + 1, Len(s)))
             ELSE IF Head(s) = "&" /\ semi # 0 /\ is_scalar_value(reference_number(entity))
             THEN << char_of(reference_number(entity)) >>
                      \o entities_decoded(SubSeq(s, semi + 1, Len(s)))
             ELSE << Head(s) >> \o entities_decoded(Tail(s))

\* C11: unescape_html_entities decodes the five named entities and the well-formed
\* numeric references (decimal digits only, or hex digits only) of a Unicode scalar
\* value, and copies everything else, unknown and malformed sequences included,
\* unchanged and in order; decoded output is not scanned again.
C11_DecodesOnlyWellFormed ==
    unescaped.some => unescaped.value = entities_decoded(text)

\* ---------------------------------------------------------------------------
\* C12
\* ---------------------------------------------------------------------------

reached_step_6 == returned /\ run.exit >= 6

\* C12: looks_like_live_timestamp_segment does not fire on a segment that holds a
\* month name or abbreviation; with an author segment, step 6 removes no line that
\* holds a month name.
C12_MonthLinesKept ==
    reached_step_6 /\ run.has_author_segment =>
        \A line \in Range(lines_of(run.stripped)) :
            mentions_month(to_lowercase(line)) =>
                /\ ~looks_like_live_timestamp_segment(line)
                /\ run.exit > 6 => line \in Range(lines_of(run.untimed))

\* ---------------------------------------------------------------------------
\* C14
\* ---------------------------------------------------------------------------

\* A single line, already trimmed, without trailing separator, that is an author
\* name, no social handle and no "posted by" / "promoted by" credit.
plain_personal_name(s) ==
    /\ ~contains(s, <<"\n">>)
    /\ trim_soft_space(trim(s)) = s
    /\ trim_trailing_separators(s) = s
    /\ looks_like_author_name(s)
    /\ ~looks_like_social_handle(s)
    /\ ~has_posted_by_prefix(s)

\* C14: a plain personal name is accepted as it is.
C14_PlainNameAccepted ==
    returned /\ plain_personal_name(text) => run.outcome = Accepted(text)

\* ---------------------------------------------------------------------------
\* C15
\* ---------------------------------------------------------------------------

\* C15: clean_byline_text_with_reason is idempotent on its accepted results: the
\* second call, on the accepted text, accepts that text unchanged.
C15_Idempotent ==
    pc = "again" => again.outcome = run.outcome

\* ---------------------------------------------------------------------------
\* C13
\* ---------------------------------------------------------------------------

reached_step_3 == returned /\ run.exit >= 3

\* The lines step 3 works on, and the lines it leaves.
lines_before_step_3 == lines_of(replace(run.cleaned, <<"\r","\n">>, <<"\n">>))

lines_after_step_3 == lines_of(run.collapsed)

is_blank(line) == trim(line) = <<>>

\* The positions of the non-blank lines, in order.
non_blank_positions(lines) ==
    SelectSeq([i \in 1..Len(lines) |-> i], LAMBDA i : ~is_blank(lines[i]))

\* The positions of the run of consecutive blank lines that ends right before line i.
blank_run_before(lines, i) ==
    { j \in 1..(i - 1) : \A m \in j..(i - 1) : is_blank(lines[m]) }

min_of(S) == CHOOSE j \in S : \A m \in S : j <= m

\* The content of the first blank line of the run before line i.
first_blank_of_run(lines, i) ==
    IF blank_run_before(lines, i) = {} THEN <<>>
    ELSE lines[min_of(blank_run_before(lines, i))]

\* The content of the first blank line of the run before line i that is not empty.
first_non_empty_blank_of_run(lines, i) ==
    LET non_empty == { j \in blank_run_before(lines, i) : lines[j] # <<>> }
    IN  IF non_empty = {} THEN <<>> ELSE lines[min_of(non_empty)]

\* C13 as stated: step 3 leaves the non-blank lines, in order, and no
\* whitespace-only line; each is prefixed with the content of the first blank line
\* of the blank run before it (nothing when that line is empty).
C13_FirstBlankLinePrepended ==
    reached_step_3 =>
        LET before == lines_before_step_3
            after  == lines_after_step_3
            kept   == non_blank_positions(before)
        IN  /\ Len(after) = Len(kept)
            /\ \A k \in 1..Len(kept) :
                   /\ ~is_blank(after[k])
                   /\ after[k] = first_blank_of_run(before, kept[k]) \o before[kept[k]]

\* C13, amended: the prefix is the content of the first blank line of the run that
\* is not empty; empty blank lines contribute nothing.
C13_FirstNonEmptyBlankLinePrepended ==
    reached_step_3 =>
        LET before == lines_before_step_3
            after  == lines_after_step_3
            kept   == non_blank_positions(before)
        IN  /\ Len(after) = Len(kept)
            /\ \A k \in 1..Len(kept) :
                   /\ ~is_blank(after[k])
                   /\ after[k] = first_non_empty_blank_of_run(before, kept[k])
                                     \o before[kept[k]]

\* A call whose text has a blank run that starts with an empty line and holds
\* a whitespace-only line, before a non-blank line.
C13_Witness ==
    /\ reached_step_3
    /\ \E i \in 1..Len(lines_before_step_3) :
           /\ ~is_blank(lines_before_step_3[i])
           /\ first_blank_of_run(lines_before_step_3, i)
                  # first_non_empty_blank_of_run(lines_before_step_3, i)


============================================================================
